---- MODULE Spec2Model ----
(***************************************************************************)
(* Model of the entry-creation pipeline of the Vibe Worldbuilding MCP:     *)
(*   vibe_worldbuilding/tools/entries.py    (handle_entry_tool router)     *)
(*   vibe_worldbuilding/entries/creation.py (create_world_entry)           *)
(*                                                                         *)
(* Text is a sequence of one-character strings (a few fixed fragments are  *)
(* kept as one token).  A Python value passed in the argument mapping is a *)
(* record [t, v]: t is its type, v its text ("" for None).  The file       *)
(* system is a set of directories and partial maps from paths to contents. *)
(***************************************************************************)
EXTENDS Integers, Sequences, FiniteSets, TLC

\* ------------------------------------------------------------------ bounds
MaxCalls == 2          \* tool calls dispatched in one behaviour
NumTasks == 2          \* invocation slots (asynchronous tasks)

Tasks == 1..NumTasks
SeqTasks == {1}        \* the single-request-at-a-time model uses one slot

\* --------------------------------------------------------------- constants
MARKDOWN_EXTENSION == ".md"
TAXONOMY_OVERVIEW_SUFFIX == "-overview"
OverviewPrefixLen == 500

\* ------------------------------------------------------------ Python values
Str(s) == [t |-> "str", v |-> s]
Int5 == [t |-> "int", v |-> <<"5">>]
PyNone == [t |-> "NoneType", v |-> <<>>]

\* truth value of a Python object (bool(x)): "" and None are falsy
Truthy(x) == IF x.t = "NoneType" THEN FALSE ELSE x.v # <<>>

IsStr(x) == x.t = "str"

NoArguments == [isNone |-> TRUE, dict |-> <<>>]
Dict(d) == [isNone |-> FALSE, dict |-> d]

\* arguments.get(key, "")
Get(arguments, key) ==
    IF key \in DOMAIN arguments.dict THEN arguments.dict[key] ELSE Str(<<>>)

\* `not arguments`: None or the empty mapping
NotArguments(arguments) == arguments.isNone \/ DOMAIN arguments.dict = {}

\* ------------------------------------------------------------- text helpers
Whitespace == {" ", "\n", "\t"}
Disallowed == {"_", "/", "'"}

LowerLetters ==
    <<"a", "b", "c", "d", "e", "f", "g", "h", "i", "j", "k", "l", "m",
      "n", "o", "p", "q", "r", "s", "t", "u", "v", "w", "x", "y", "z">>

UpperLetters ==
    <<"A", "B", "C", "D", "E", "F", "G", "H", "I", "J", "K", "L", "M",
      "N", "O", "P", "Q", "R", "S", "T", "U", "V", "W", "X", "Y", "Z">>

\* str.lower() of one character
ToLower(c) ==
    IF \E i \in DOMAIN UpperLetters : UpperLetters[i] = c
    THEN LowerLetters[CHOOSE i \in DOMAIN UpperLetters : UpperLetters[i] = c]
    ELSE c

\* str.upper() of one character
ToUpper(c) ==
    IF \E i \in DOMAIN LowerLetters : LowerLetters[i] = c
    THEN UpperLetters[CHOOSE i \in DOMAIN LowerLetters : LowerLetters[i] = c]
    ELSE c

IsLetter(c) == ToLower(c) # ToUpper(c)

RECURSIVE LStrip(_)
LStrip(s) == IF s # <<>> /\ Head(s) \in Whitespace THEN LStrip(Tail(s)) ELSE s

RECURSIVE RStrip(_)
RStrip(s) ==
    IF s # <<>> /\ s[Len(s)] \in Whitespace
    THEN RStrip(SubSeq(s, 1, Len(s) - 1)) ELSE s

\* str.strip()
strip(s) == RStrip(LStrip(s))

\* str.title(): a letter is upper-cased when it starts a word, else lowered
title(s) ==
    [i \in 1..Len(s) |->
        IF i = 1 \/ ~IsLetter(s[i - 1]) THEN ToUpper(s[i]) ELSE ToLower(s[i])]

\* content[:n]
Prefix(s, n) == SubSeq(s, 1, IF Len(s) < n THEN Len(s) ELSE n)

\* clean_name: lowercased, trimmed, whitespace and disallowed characters
\* replaced with hyphens
clean_name(name) ==
    LET s == strip(name) IN
    [i \in 1..Len(s) |->
        IF s[i] \in Whitespace \cup Disallowed THEN "-" ELSE ToLower(s[i])]

\* ------------------------------------------------------------ input values
W1 == <<"w", "1">>
W2 == <<"w", "2">>
Flora == <<"F", "l", "o", "r", "a">>
Fauna == <<"f", "a", "u", "n", "a">>
RedOak == <<"R", "e", "d", " ", "O", "a", "k">>
ContentA == <<"A", " ", "t", "r", "e", "e", ".">>
HeaderBlock == "---\ntitle: Draft\n---\n"
ContentB == <<HeaderBlock, " ", "B", "i", "g", ".">>
ContentC == <<" ", "C", ".">>
OverviewText == <<"a", "l", "l", " ", "f", "l", "o", "r", "a">>
WorldText == <<"o", "l", "d">>

Keys == {"world_directory", "taxonomy", "entry_name", "entry_content"}

ValuesFor(key) ==
    CASE key = "world_directory" -> {Str(W1), Str(W2), Int5}
      [] key = "taxonomy" -> {Str(Flora), Str(Fauna), Str(<<>>), Int5}
      [] key = "entry_name" -> {Str(RedOak), PyNone, Int5}
      [] key = "entry_content" ->
            {Str(<<>>), Str(<<" ">>), Str(ContentA), Str(ContentB), PyNone}

AllValues == UNION {ValuesFor(k) : k \in Keys}

\* every argument mapping a caller can send: None, or a mapping that holds any
\* subset of the keys
ArgumentMappings ==
    {NoArguments} \cup
    {Dict(d) : d \in UNION {{f \in [K -> AllValues] :
                                \A k \in K : f[k] \in ValuesFor(k)} :
                            K \in SUBSET Keys}}


\* --------------------------------------------------------------- the router
\* mutant of ENTRY_HANDLERS: the table without its last entry
ENTRY_HANDLERS_Short ==
    [n \in {"create_world_entry", "create_stub_entries",
            "generate_entry_descriptions", "add_entry_frontmatter"} |->
        CASE n = "create_world_entry" -> "entries.creation.create_world_entry"
          [] n = "create_stub_entries" ->
                "entries.stub_generation.create_stub_entries"
          [] n = "generate_entry_descriptions" ->
                "entries.content_processing.generate_entry_descriptions"
          [] n = "add_entry_frontmatter" ->
                "entries.content_processing.add_entry_frontmatter"]

ENTRY_HANDLERS ==
    [n \in {"create_world_entry", "create_stub_entries",
            "generate_entry_descriptions", "add_entry_frontmatter",
            "analyze_world_consistency"} |->
        CASE n = "create_world_entry" -> "entries.creation.create_world_entry"
          [] n = "create_stub_entries" ->
                "entries.stub_generation.create_stub_entries"
          [] n = "generate_entry_descriptions" ->
                "entries.content_processing.generate_entry_descriptions"
          [] n = "add_entry_frontmatter" ->
                "entries.content_processing.add_entry_frontmatter"
          [] n = "analyze_world_consistency" ->
                "entries.consistency.analyze_world_consistency"]

\* the names a caller may send: the registered ones and an unregistered one
ToolNames ==
    {"create_world_entry", "create_stub_entries", "generate_entry_descriptions",
     "add_entry_frontmatter", "analyze_world_consistency", "does_not_exist"}

\* the argument mappings a caller sends with a tool name: any mapping of the
\* four keys for create_world_entry, a few of them for the other names
ArgumentsFor(name) ==
    IF name = "create_world_entry"
    THEN ArgumentMappings
    ELSE {NoArguments,
          Dict("world_directory" :> Str(W1)),
          Dict("world_directory" :> Str(W2) @@ "taxonomy" :> Str(Flora))}

\* ValueError(f"Unknown entry tool: {name}")
UnknownTool(name) ==
    [exc |-> "ValueError", message |-> <<"Unknown entry tool: ", name>>]

\* what a handler leaves to its caller
NoRet == [status |-> "none"]
Returned(v) == [status |-> "returned", value |-> v]
Raised(e) == [status |-> "raised", value |-> e]

\* [types.TextContent(type="text", text=...)]
TextContent(t) == [type |-> "text", text |-> t]

\* ------------------------------------------------------- response texts
ErrNoArguments == TextContent([msg |-> "Error: No arguments provided"])

ErrRequired ==
    TextContent(
        [msg |-> "Error: world_directory, taxonomy, and entry_name are required"])

ErrWorldMissing(world_path) ==
    TextContent([msg |-> "Error: World directory {} does not exist",
                 world_path |-> world_path])

\* mutant of TaxonomyList: the join without the "None" fallback
TaxonomyListNoFallback(existing_taxonomies) == existing_taxonomies

\* ", ".join(existing_taxonomies) if existing_taxonomies else "None"
TaxonomyList(existing_taxonomies) ==
    IF existing_taxonomies # <<>> THEN existing_taxonomies ELSE <<<<"None">>>>

ErrTaxonomy(taxonomy, existing_taxonomies) ==
    TextContent([msg |-> "Error: Taxonomy '{}' does not exist. Available taxonomies: {}",
                 taxonomy |-> taxonomy,
                 taxonomy_list |-> TaxonomyList(existing_taxonomies)])

ErrInternal(e) ==
    TextContent([msg |-> "Error creating world entry: {}", error |-> e])

ContextOnlyText(entry_name, taxonomy, world_context) ==
    TextContent([msg |-> "# World Context for Creating '{}' in {}",
                 entry_name |-> entry_name,
                 taxonomy |-> taxonomy,
                 world_context |-> world_context])

\* f"\n\nTaxonomy context included: {taxonomy_context[:100]}..." or the
\* "No taxonomy overview found" line
ContextInfo(taxonomy_context) ==
    IF taxonomy_context # <<>>
    THEN <<"Taxonomy context included: ">> \o Prefix(taxonomy_context, 100)
            \o <<"...">>
    ELSE <<"No taxonomy overview found for reference.">>

CreatedText(entry_name, world_context, relative_path, taxonomy_context, image_info, stub_analysis_info) ==
    TextContent([msg |-> "## Entry Created Successfully!",
                 entry_name |-> entry_name,
                 world_context |-> world_context,
                 relative_path |-> relative_path,
                 context_info |-> ContextInfo(taxonomy_context),
                 image_info |-> image_info,
                 stub_analysis_info |-> stub_analysis_info])


\* ---------------------------------------------------------------- state
VARIABLES
    worldDirs,      \* the world root directories that exist
    taxonomyFiles,  \* <<world, file name>> -> content, under taxonomies/
    overviewFiles,  \* <<world, file name>> -> content, under overview/
    imageFiles,     \* <<world, directory, file name>> -> content, under images/
    entryDirs,      \* the <<world, directory>> that exist under entries/
    entryFiles,     \* <<world, directory, file name>> -> document
    calls,          \* tool calls dispatched so far
    rpc,            \* handle_entry_tool: position of each task's call
    tool,           \* handle_entry_tool: the name it was called with
    rargs,          \* handle_entry_tool: the arguments it was called with
    invoked,        \* handle_entry_tool: the handler calls it made
    rout,           \* handle_entry_tool: what it returned or raised
    pc,             \* the handler: position of each task's call
    args,           \* the handler: the arguments it received
    local,          \* create_world_entry: its local variables
    ret,            \* the handler: what it returned or raised
    fsops,          \* create_world_entry: its file-system operations so far
    before          \* the file system as it was when the task's call began

fsvars == <<worldDirs, taxonomyFiles, overviewFiles, imageFiles, entryDirs,
            entryFiles>>
routervars == <<rpc, tool, rargs, invoked, rout>>
handlervars == <<pc, args, local, ret, fsops>>
vars == <<fsvars, calls, routervars, handlervars, before>>

\* the whole file system, as one value
FileSystem ==
    [worldDirs |-> worldDirs, taxonomyFiles |-> taxonomyFiles,
     overviewFiles |-> overviewFiles, imageFiles |-> imageFiles,
     entryDirs |-> entryDirs, entryFiles |-> entryFiles]

\* ----------------------------------------------------------- file system
DEFAULT_BASE_DIRECTORY == "."

\* resolve_world_path: the world directory under the base directory
resolve_world_path(world_directory) ==
    <<DEFAULT_BASE_DIRECTORY, "/">> \o world_directory

\* world_path / "taxonomies" / f"{clean_taxonomy}{TAXONOMY_OVERVIEW_SUFFIX}.md"
TaxonomyOverviewFile(world_path, clean_taxonomy) ==
    <<world_path, clean_taxonomy \o <<TAXONOMY_OVERVIEW_SUFFIX, ".md">>>>

\* world_path / "overview" / "world-overview.md"
WorldOverviewFile(world_path) == <<world_path, <<"world-overview", ".md">>>>

\* world_path / "entries" / clean_taxonomy
EntryDir(world_path, clean_taxonomy) == <<world_path, clean_taxonomy>>

\* entry_path / f"{clean_entry}{MARKDOWN_EXTENSION}"
EntryFile(world_path, clean_taxonomy, clean_entry) ==
    <<world_path, clean_taxonomy, clean_entry \o <<MARKDOWN_EXTENSION>>>>

\* str(entry_file.relative_to(world_path))
RelativePath(entry_file) == <<"entries", "/">> \o entry_file[2] \o <<"/">> \o entry_file[3]

\* mutant of TaxonomyExists: asks whether taxonomies/ holds any overview file
TaxonomyExistsAny(world_path, clean_taxonomy) ==
    \E f \in DOMAIN taxonomyFiles : f[1] = world_path

\* taxonomy_overview_file.exists()
TaxonomyExists(world_path, clean_taxonomy) ==
    TaxonomyOverviewFile(world_path, clean_taxonomy) \in DOMAIN taxonomyFiles

\* mutant of WriteFile: the file is opened without truncation, what it held
\* stays after the new text
WriteFileNoTruncate(files, path, content) ==
    IF path \in DOMAIN files
    THEN (path :> [content EXCEPT !.text = @ \o files[path].text]) @@ files
    ELSE (path :> content) @@ files

\* mutant of WriteFile: exclusive creation, a file that exists is kept
WriteFileExclusive(files, path, content) == files @@ (path :> content)

\* with open(entry_file, "w") as f: f.write(final_content)
WriteFile(files, path, content) == (path :> content) @@ files

\* the display name the taxonomy list shows for an overview file
DisplayName(file_name) ==
    LET stem == SubSeq(file_name, 1, Len(file_name) - 2) IN
    title([i \in 1..Len(stem) |-> IF stem[i] = "-" THEN " " ELSE stem[i]])

IsOverviewName(file_name) ==
    /\ Len(file_name) >= 2
    /\ SubSeq(file_name, Len(file_name) - 1, Len(file_name))
         = <<TAXONOMY_OVERVIEW_SUFFIX, MARKDOWN_EXTENSION>>

\* the display names of the taxonomies that have an overview file
ExistingTaxonomyNames(world_path) ==
    {DisplayName(k[2]) : k \in {f \in DOMAIN taxonomyFiles :
                                  f[1] = world_path /\ IsOverviewName(f[2])}}

\* the lists that hold each element of S once
Orderings(S) ==
    {s \in [1..Cardinality(S) -> S] : \A i, j \in DOMAIN s : s[i] = s[j] => i = j}

\* get_existing_taxonomies: the taxonomy names, in the order the scan gives
get_existing_taxonomies(world_path) == Orderings(ExistingTaxonomyNames(world_path))

\* extract_taxonomy_context: a bounded prefix of the overview file, "" without it
extract_taxonomy_context(world_path, clean_taxonomy) ==
    LET f == TaxonomyOverviewFile(world_path, clean_taxonomy) IN
    IF f \in DOMAIN taxonomyFiles
    THEN Prefix(taxonomyFiles[f], OverviewPrefixLen) ELSE <<>>

\* get_existing_entries_with_descriptions: every entry file under entries/,
\* with the description of its frontmatter
get_existing_entries_with_descriptions(world_path) ==
    {[taxonomy |-> k[2], file |-> k[3],
      description |-> entryFiles[k].frontmatter.description] :
        k \in {f \in DOMAIN entryFiles : f[1] = world_path}}

_get_world_overview(world_path) ==
    LET f == WorldOverviewFile(world_path) IN
    IF f \in DOMAIN overviewFiles
    THEN Prefix(overviewFiles[f], 500)
            \o (IF Len(overviewFiles[f]) > 500 THEN <<"...">> ELSE <<>>)
    ELSE <<>>

\* create_world_context_prompt: one text block made of its five inputs
create_world_context_prompt(existing_taxonomies, existing_entries, taxonomy_context, world_overview, taxonomy) ==
    [taxonomies |-> existing_taxonomies, entries |-> existing_entries,
     taxonomy_context |-> taxonomy_context, world_overview |-> world_overview,
     taxonomy |-> taxonomy]

\* a header block (frontmatter) opens the content
HasHeaderBlock(content) == content # <<>> /\ Head(content) = HeaderBlock

\* extract_frontmatter: the body that remains once a header block is taken off
BodyOf(content) == IF HasHeaderBlock(content) THEN Tail(content) ELSE content

\* extract_description_from_content: the first block of prose of the content
extract_description_from_content(content) == strip(BodyOf(content))

\* {"description": description, "article_type": "full"}, plus taxonomyContext
FrontmatterAlwaysContext(description, taxonomy_context) ==
    [description |-> description, article_type |-> "full",
     taxonomyContext |-> taxonomy_context]

Frontmatter(description, taxonomy_context) ==
    IF taxonomy_context # <<>>
    THEN [description |-> description, article_type |-> "full",
          taxonomyContext |-> taxonomy_context]
    ELSE [description |-> description, article_type |-> "full"]

\* add_frontmatter_to_content: the header block, then the content; a header
\* block the content already has is replaced, not kept under the new one
add_frontmatter_to_content(content, frontmatter) ==
    [frontmatter |-> frontmatter, text |-> BodyOf(content)]

\* the document _create_entry_file writes: frontmatter, content, footer
FinalContent(entry_content, taxonomy, taxonomy_context) ==
    LET d == add_frontmatter_to_content(
                 entry_content,
                 Frontmatter(extract_description_from_content(entry_content),
                             taxonomy_context))
    IN [d EXCEPT !.text = @ \o <<"\n\n---\n*Entry in ">> \o title(taxonomy)
                            \o <<" taxonomy*\n">>]


\* ------------------------------------------------------------------ Init
NoLocals ==
    [world_path |-> <<>>, clean_taxonomy |-> <<>>, clean_entry |-> <<>>,
     taxonomy_context |-> <<>>,
     world_context |-> create_world_context_prompt(<<>>, {}, <<>>, <<>>, <<>>),
     entry_file |-> <<>>, image_info |-> <<>>, stub_analysis_info |-> <<>>]

\* the world ./w1 exists (./w2 does not); any of its taxonomies may have an
\* overview file, empty or not; it has no entries yet
Init ==
    /\ worldDirs = {resolve_world_path(W1)}
    /\ taxonomyFiles \in
         UNION {[{TaxonomyOverviewFile(resolve_world_path(W1), clean_name(n)) :
                    n \in S} -> {<<>>, OverviewText}] :
                S \in SUBSET {Flora, Fauna}}
    /\ overviewFiles \in
         {<<>>, WorldOverviewFile(resolve_world_path(W1)) :> WorldText}
    /\ imageFiles = <<>>
    /\ entryDirs = {}
    /\ entryFiles = <<>>
    /\ calls = 0
    /\ rpc = [p \in Tasks |-> "idle"]
    /\ tool = [p \in Tasks |-> ""]
    /\ rargs = [p \in Tasks |-> NoArguments]
    /\ invoked = [p \in Tasks |-> <<>>]
    /\ rout = [p \in Tasks |-> NoRet]
    /\ pc = [p \in Tasks |-> "IDLE"]
    /\ args = [p \in Tasks |-> NoArguments]
    /\ local = [p \in Tasks |-> NoLocals]
    /\ ret = [p \in Tasks |-> NoRet]
    /\ fsops = [p \in Tasks |-> <<>>]
    /\ before = [p \in Tasks |-> FileSystem]

\* --------------------------------------------------- handle_entry_tool
\* the call enters handle_entry_tool: an unknown name raises ValueError, a
\* registered one calls its handler with the arguments
DispatchCall(p, name, arguments) ==
    /\ calls < MaxCalls
    /\ rpc[p] = "idle"
    /\ calls' = calls + 1
    /\ tool' = [tool EXCEPT ![p] = name]
    /\ rargs' = [rargs EXCEPT ![p] = arguments]
    /\ local' = [local EXCEPT ![p] = NoLocals]
    /\ ret' = [ret EXCEPT ![p] = NoRet]
    /\ fsops' = [fsops EXCEPT ![p] = <<>>]
    /\ before' = [before EXCEPT ![p] = FileSystem]
    /\ IF name \notin DOMAIN ENTRY_HANDLERS
       THEN /\ rpc' = [rpc EXCEPT ![p] = "raised"]
            /\ rout' = [rout EXCEPT ![p] = Raised(UnknownTool(name))]
            /\ invoked' = [invoked EXCEPT ![p] = <<>>]
            /\ pc' = [pc EXCEPT ![p] = "IDLE"]
            /\ args' = [args EXCEPT ![p] = NoArguments]
       ELSE /\ rpc' = [rpc EXCEPT ![p] = "awaiting"]
            /\ rout' = [rout EXCEPT ![p] = NoRet]
            /\ invoked' = [invoked EXCEPT ![p] =
                             <<[handler |-> ENTRY_HANDLERS[name],
                                arguments |-> arguments]>>]
            /\ pc' = [pc EXCEPT ![p] =
                        IF ENTRY_HANDLERS[name]
                             = "entries.creation.create_world_entry"
                        THEN "START" ELSE "OTHER_HANDLER"]
            /\ args' = [args EXCEPT ![p] = arguments]
    /\ UNCHANGED fsvars

\* a call of any tool name with any of its arguments
Dispatch(p) ==
    \E name \in ToolNames : \E arguments \in ArgumentsFor(name) :
        DispatchCall(p, name, arguments)

HandlerDone == {"DONE", "CONTEXT_ONLY", "ERROR", "RAISED", "OTHER_DONE"}

\* mutant of RouterReturn: a handler's failure is turned into an error text
RouterReturnSwallows(p) ==
    /\ rpc[p] = "awaiting"
    /\ pc[p] \in HandlerDone
    /\ rpc' = [rpc EXCEPT ![p] = "returned"]
    /\ rout' = [rout EXCEPT ![p] =
                  IF ret[p].status = "returned" THEN ret[p]
                  ELSE Returned(ErrInternal(ret[p].value.message))]
    /\ UNCHANGED <<fsvars, calls, tool, rargs, invoked, handlervars, before>>

\* the awaited handler has finished: its result is returned, its exception
\* re-raised
RouterReturn(p) ==
    /\ rpc[p] = "awaiting"
    /\ pc[p] \in HandlerDone
    /\ rpc' = [rpc EXCEPT ![p] =
                 IF ret[p].status = "returned" THEN "returned" ELSE "raised"]
    /\ rout' = [rout EXCEPT ![p] = ret[p]]
    /\ UNCHANGED <<fsvars, calls, tool, rargs, invoked, handlervars, before>>

\* the call is over and its task ends: nothing of it stays in memory
TaskEnd(p) ==
    /\ rpc[p] \in {"returned", "raised"}
    /\ rpc' = [rpc EXCEPT ![p] = "idle"]
    /\ tool' = [tool EXCEPT ![p] = ""]
    /\ rargs' = [rargs EXCEPT ![p] = NoArguments]
    /\ invoked' = [invoked EXCEPT ![p] = <<>>]
    /\ rout' = [rout EXCEPT ![p] = NoRet]
    /\ pc' = [pc EXCEPT ![p] = "IDLE"]
    /\ args' = [args EXCEPT ![p] = NoArguments]
    /\ local' = [local EXCEPT ![p] = NoLocals]
    /\ ret' = [ret EXCEPT ![p] = NoRet]
    /\ fsops' = [fsops EXCEPT ![p] = <<>>]
    /\ before' = [before EXCEPT ![p] = FileSystem]
    /\ UNCHANGED <<fsvars, calls>>

\* one of the four other handlers runs: it returns a text or raises
OtherHandler(p) ==
    /\ pc[p] = "OTHER_HANDLER"
    /\ \E r \in {Returned(TextContent([msg |-> "handler result",
                                       handler |-> ENTRY_HANDLERS[tool[p]],
                                       arguments |-> args[p]])),
                 Raised([exc |-> "Exception",
                         message |-> <<"handler failure: ",
                                       ENTRY_HANDLERS[tool[p]]>>])} :
          ret' = [ret EXCEPT ![p] = r]
    /\ pc' = [pc EXCEPT ![p] = "OTHER_DONE"]
    /\ UNCHANGED <<fsvars, calls, routervars, args, local, fsops, before>>


\* --------------------------------------------------- create_world_entry
AttributeError(what) ==
    [exc |-> "AttributeError", message |-> <<what, " object has no attribute">>]

TypeError(what) ==
    [exc |-> "TypeError", message |-> <<"expected str, not ", what>>]

\* the handler returns `value` from position `at`
Return(p, at, value) ==
    /\ pc' = [pc EXCEPT ![p] = at]
    /\ ret' = [ret EXCEPT ![p] = Returned(value)]

\* except Exception as e: the failure becomes an error text
Caught(p, e) == Return(p, "ERROR", ErrInternal(e.message))

\* an exception leaves the handler
Propagate(p, e) ==
    /\ pc' = [pc EXCEPT ![p] = "RAISED"]
    /\ ret' = [ret EXCEPT ![p] = Raised(e)]

Log(p, ops) == fsops' = [fsops EXCEPT ![p] = @ \o ops]

\* `if not arguments`, the four .get, the debug print of
\* entry_content.strip(), `if not all([...])`
ValidateArgs(p) ==
    /\ pc[p] = "START"
    /\ IF NotArguments(args[p])
       THEN Return(p, "ERROR", ErrNoArguments)
       ELSE IF ~IsStr(Get(args[p], "entry_content"))
       THEN Propagate(p, AttributeError(Get(args[p], "entry_content").t))
       ELSE IF ~(/\ Truthy(Get(args[p], "world_directory"))
                 /\ Truthy(Get(args[p], "taxonomy"))
                 /\ Truthy(Get(args[p], "entry_name")))
       THEN Return(p, "ERROR", ErrRequired)
       ELSE /\ pc' = [pc EXCEPT ![p] = "VALIDATED_ARGS"]
            /\ UNCHANGED ret
    /\ UNCHANGED <<fsvars, calls, routervars, args, local, fsops, before>>

\* resolve_world_path, `if not world_path.exists()`
ResolveWorld(p) ==
    /\ pc[p] = "VALIDATED_ARGS"
    /\ LET world_directory == Get(args[p], "world_directory")
           world_path == resolve_world_path(world_directory.v)
       IN  IF ~IsStr(world_directory)
           THEN /\ Caught(p, TypeError(world_directory.t))
                /\ Log(p, <<"resolve_world_path">>)
                /\ UNCHANGED local
           ELSE IF world_path \notin worldDirs
           THEN /\ Return(p, "ERROR", ErrWorldMissing(world_path))
                /\ Log(p, <<"resolve_world_path", "exists(world_path)">>)
                /\ UNCHANGED local
           ELSE /\ pc' = [pc EXCEPT ![p] = "WORLD_RESOLVED"]
                /\ local' = [local EXCEPT ![p].world_path = world_path]
                /\ Log(p, <<"resolve_world_path", "exists(world_path)">>)
                /\ UNCHANGED ret
    /\ UNCHANGED <<fsvars, calls, routervars, args, before>>

\* clean_name twice, `if not taxonomy_overview_file.exists()` and its error
CheckTaxonomy(p) ==
    /\ pc[p] = "WORLD_RESOLVED"
    /\ LET taxonomy == Get(args[p], "taxonomy")
           entry_name == Get(args[p], "entry_name")
           world_path == local[p].world_path
           clean_taxonomy == clean_name(taxonomy.v)
           clean_entry == clean_name(entry_name.v)
       IN  IF ~IsStr(taxonomy)
           THEN /\ Caught(p, AttributeError(taxonomy.t))
                /\ UNCHANGED <<local, fsops>>
           ELSE IF ~IsStr(entry_name)
           THEN /\ Caught(p, AttributeError(entry_name.t))
                /\ UNCHANGED <<local, fsops>>
           ELSE IF ~TaxonomyExists(world_path, clean_taxonomy)
           THEN /\ \E existing_taxonomies \in get_existing_taxonomies(world_path) :
                     Return(p, "ERROR",
                            ErrTaxonomy(taxonomy.v, existing_taxonomies))
                /\ Log(p, <<"exists(taxonomy_overview_file)",
                            "get_existing_taxonomies">>)
                /\ UNCHANGED local
           ELSE /\ pc' = [pc EXCEPT ![p] = "TAXONOMY_CHECKED"]
                /\ local' = [local EXCEPT ![p].clean_taxonomy = clean_taxonomy,
                                          ![p].clean_entry = clean_entry]
                /\ Log(p, <<"exists(taxonomy_overview_file)">>)
                /\ UNCHANGED ret
    /\ UNCHANGED <<fsvars, calls, routervars, args, before>>

\* the taxonomy context, the taxonomy and entry scans, the world overview and
\* the context prompt made of them
BuildContext(p) ==
    /\ pc[p] = "TAXONOMY_CHECKED"
    /\ LET world_path == local[p].world_path
           taxonomy_context ==
               extract_taxonomy_context(world_path, local[p].clean_taxonomy)
       IN  \E existing_taxonomies \in get_existing_taxonomies(world_path) :
             local' = [local EXCEPT
                 ![p].taxonomy_context = taxonomy_context,
                 ![p].world_context =
                     create_world_context_prompt(
                         existing_taxonomies,
                         get_existing_entries_with_descriptions(world_path),
                         taxonomy_context,
                         _get_world_overview(world_path),
                         Get(args[p], "taxonomy").v)]
    /\ pc' = [pc EXCEPT ![p] = "CONTEXT_BUILT"]
    /\ Log(p, <<"extract_taxonomy_context", "get_existing_taxonomies",
                "get_existing_entries_with_descriptions",
                "_get_world_overview">>)
    /\ UNCHANGED <<fsvars, calls, routervars, args, ret, before>>

\* mutant of HasContent: the test without the strip
HasContentNoStrip(entry_content) == entry_content # <<>>

\* `if entry_content.strip():`
HasContent(entry_content) == strip(entry_content) # <<>>

\* _create_entry_file: mkdir(parents=True, exist_ok=True), then
\* open(entry_file, "w") and write of the final content
_create_entry_file(p) ==
    LET world_path == local[p].world_path
        entry_file == EntryFile(world_path, local[p].clean_taxonomy,
                                local[p].clean_entry)
    IN  /\ worldDirs' = worldDirs \cup {world_path}
        /\ entryDirs' = entryDirs
                          \cup {EntryDir(world_path, local[p].clean_taxonomy)}
        /\ entryFiles' =
             WriteFile(entryFiles, entry_file,
                       FinalContent(Get(args[p], "entry_content").v,
                                    Get(args[p], "taxonomy").v,
                                    local[p].taxonomy_context))
        /\ local' = [local EXCEPT ![p].entry_file = entry_file]
        /\ Log(p, <<"mkdir(entry_path)", "write(entry_file)">>)

\* mutant of WriteEntry: the file is written once the taxonomy is checked,
\* before the context is assembled
WriteEntryEarly(p) ==
    /\ pc[p] = "TAXONOMY_CHECKED"
    /\ HasContent(Get(args[p], "entry_content").v)
    /\ _create_entry_file(p)
    /\ pc' = [pc EXCEPT ![p] = "WRITE_ENTRY"]
    /\ UNCHANGED <<taxonomyFiles, overviewFiles, imageFiles, calls, routervars,
                   args, ret, before>>

\* `if entry_content.strip():` the entry file is created
WriteEntry(p) ==
    /\ pc[p] = "CONTEXT_BUILT"
    /\ HasContent(Get(args[p], "entry_content").v)
    /\ _create_entry_file(p)
    /\ pc' = [pc EXCEPT ![p] = "WRITE_ENTRY"]
    /\ UNCHANGED <<taxonomyFiles, overviewFiles, imageFiles, calls, routervars,
                   args, ret, before>>

\* `else:` the context is returned for the entry to be generated
ReturnContextOnly(p) ==
    /\ pc[p] = "CONTEXT_BUILT"
    /\ ~HasContent(Get(args[p], "entry_content").v)
    /\ Return(p, "CONTEXT_ONLY",
              ContextOnlyText(Get(args[p], "entry_name").v,
                              Get(args[p], "taxonomy").v,
                              local[p].world_context))
    /\ UNCHANGED <<fsvars, calls, routervars, args, local, fsops, before>>

\* mutant of GenerateImage: the generation is switched on and saves an image
\* of the entry under images/
GenerateImageEnabled(p) ==
    /\ pc[p] = "WRITE_ENTRY"
    /\ imageFiles' =
         (<<local[p].world_path, local[p].clean_taxonomy,
            local[p].clean_entry \o <<".png">>>> :> <<"image">>) @@ imageFiles
    /\ local' = [local EXCEPT ![p].image_info = <<"\n\n## Image generated">>]
    /\ pc' = [pc EXCEPT ![p] = "IMAGE_ATTEMPTED"]
    /\ Log(p, <<"_generate_optimized_entry_image">>)
    /\ UNCHANGED <<worldDirs, taxonomyFiles, overviewFiles, entryDirs,
                   entryFiles, calls, routervars, args, ret, before>>

\* _generate_optimized_entry_image: disabled, it returns "" at once
GenerateImage(p) ==
    /\ pc[p] = "WRITE_ENTRY"
    /\ local' = [local EXCEPT ![p].image_info = <<>>]
    /\ pc' = [pc EXCEPT ![p] = "IMAGE_ATTEMPTED"]
    /\ Log(p, <<"_generate_optimized_entry_image">>)
    /\ UNCHANGED <<fsvars, calls, routervars, args, ret, before>>

\* generate_stub_analysis: it finds suggestions, finds nothing, or fails; it
\* gives its suggestions as text and "" otherwise
StubOutcomes == {"suggestions", "nothing", "failed"}

StubAnalysisText(outcome) ==
    IF outcome = "suggestions" THEN <<"\n\n## Stub suggestions">> ELSE <<>>

\* mutant of AnalyzeStubs: a failed analysis raises into the outer handler
AnalyzeStubsRaises(p) ==
    /\ pc[p] = "IMAGE_ATTEMPTED"
    /\ \E outcome \in StubOutcomes :
         /\ Log(p, <<"generate_stub_analysis", outcome>>)
         /\ IF outcome = "failed"
            THEN /\ Caught(p, [exc |-> "Exception",
                               message |-> <<"stub analysis failed">>])
                 /\ UNCHANGED local
            ELSE /\ local' = [local EXCEPT
                        ![p].stub_analysis_info = StubAnalysisText(outcome)]
                 /\ pc' = [pc EXCEPT ![p] = "STUB_ANALYZED"]
                 /\ UNCHANGED ret
    /\ UNCHANGED <<fsvars, calls, routervars, args, before>>

\* stub_analysis_info = generate_stub_analysis(...)
AnalyzeStubs(p) ==
    /\ pc[p] = "IMAGE_ATTEMPTED"
    /\ \E outcome \in StubOutcomes :
         /\ local' = [local EXCEPT
                        ![p].stub_analysis_info = StubAnalysisText(outcome)]
         /\ Log(p, <<"generate_stub_analysis", outcome>>)
    /\ pc' = [pc EXCEPT ![p] = "STUB_ANALYZED"]
    /\ UNCHANGED <<fsvars, calls, routervars, args, ret, before>>

\* the response with the context and the creation result
Respond(p) ==
    /\ pc[p] = "STUB_ANALYZED"
    /\ Return(p, "DONE",
              CreatedText(Get(args[p], "entry_name").v,
                          local[p].world_context,
                          RelativePath(local[p].entry_file),
                          local[p].taxonomy_context,
                          local[p].image_info,
                          local[p].stub_analysis_info))
    /\ UNCHANGED <<fsvars, calls, routervars, args, local, fsops, before>>

\* ------------------------------------------------------------------ Next
create_world_entry(p) ==
    \/ ValidateArgs(p)
    \/ ResolveWorld(p)
    \/ CheckTaxonomy(p)
    \/ BuildContext(p)
    \/ WriteEntry(p)
    \/ ReturnContextOnly(p)
    \/ GenerateImage(p)
    \/ AnalyzeStubs(p)
    \/ Respond(p)

handle_entry_tool(p) ==
    \/ Dispatch(p)
    \/ create_world_entry(p)
    \/ OtherHandler(p)
    \/ RouterReturn(p)
    \/ TaskEnd(p)

\* one request at a time
Next == \E p \in SeqTasks : handle_entry_tool(p)

Spec == Init /\ [][Next]_vars

\* ------------------------------------------------- concurrent invocations
\* the content of the invocation that task p runs: each task has its own
ConcContents == <<ContentA, ContentB, ContentC>>

ConcContent(p) == ConcContents[((p - 1) % Len(ConcContents)) + 1]

\* create_world_entry for the same world, taxonomy and entry name, with the
\* task's own content or with none
ConcArguments(p) ==
    {Dict([world_directory |-> Str(W1), taxonomy |-> Str(Flora),
           entry_name |-> Str(RedOak), entry_content |-> Str(c)]) :
        c \in {ConcContent(p), <<>>}}

\* the invocations arrive together: none has taken a step of its handler
\* when another is dispatched
ConcDispatch(p) ==
    /\ \A q \in Tasks : pc[q] \in {"IDLE", "START"}
    /\ \E arguments \in ConcArguments(p) :
          DispatchCall(p, "create_world_entry", arguments)

\* the invocations are asyncio tasks of one event loop: a task runs alone
\* from one step to the next, and the steps of different tasks interleave in
\* any order; the write (open, write, close) has no await in it
NextConc ==
    \E p \in Tasks :
        \/ ConcDispatch(p)
        \/ create_world_entry(p)
        \/ RouterReturn(p)

\* the invocations race in a world that has the taxonomy they name, its
\* overview file with text or empty
InitConc ==
    /\ Init
    /\ DOMAIN taxonomyFiles
         = {TaxonomyOverviewFile(resolve_world_path(W1), clean_name(Flora))}
    /\ overviewFiles = <<>>

SpecConc == InitConc /\ [][NextConc]_vars


\* ================================================================ claims
\* what a claim says of one call of create_world_entry
Registered ==
    {"create_world_entry", "create_stub_entries", "generate_entry_descriptions",
     "add_entry_frontmatter", "analyze_world_consistency"}

Required == {"world_directory", "taxonomy", "entry_name"}

\* task p runs a call of create_world_entry that has finished
CreateFinished(p) ==
    /\ rpc[p] # "idle"
    /\ tool[p] = "create_world_entry"
    /\ pc[p] \in HandlerDone

Arg(p, key) == Get(args[p], key)

\* the three required arguments are non-empty strings
ValidRequired(p) ==
    /\ ~args[p].isNone
    /\ \A k \in Required : k \in DOMAIN args[p].dict /\ IsStr(Arg(p, k))
                              /\ Arg(p, k).v # <<>>

\* a required argument is missing or empty
MissingRequired(p) ==
    \/ NotArguments(args[p])
    \/ \E k \in Required : \/ k \notin DOMAIN args[p].dict
                           \/ Arg(p, k) \in {Str(<<>>), PyNone}

\* entry_content is absent, empty, or empty once stripped
EmptyContent(p) ==
    \/ "entry_content" \notin DOMAIN args[p].dict
    \/ /\ IsStr(Arg(p, "entry_content"))
       /\ \A i \in DOMAIN Arg(p, "entry_content").v :
             Arg(p, "entry_content").v[i] \in {" ", "\n", "\t"}

WorldPathOf(p) == <<".", "/">> \o Arg(p, "world_directory").v

\* the world existed when the call began
WorldExisted(p) == WorldPathOf(p) \in before[p].worldDirs

\* the overview file of the call's taxonomy existed when the call began
OverviewExisted(p) ==
    \E k \in DOMAIN before[p].taxonomyFiles :
        /\ k[1] = WorldPathOf(p)
        /\ k[2] = clean_name(Arg(p, "taxonomy").v) \o <<"-overview", ".md">>

EntriesUntouched(p) ==
    /\ entryDirs = before[p].entryDirs
    /\ entryFiles = before[p].entryFiles

\* C1: a call with valid world, taxonomy and entry name and empty content
\* (absent, empty or blank), in a world where the taxonomy overview exists,
\* leaves entries/ as it was and returns only the context block
C1_EmptyContentWritesNothing ==
    \A p \in Tasks :
        (CreateFinished(p) /\ ValidRequired(p) /\ EmptyContent(p)
            /\ WorldExisted(p) /\ OverviewExisted(p))
        => /\ EntriesUntouched(p)
           /\ FileSystem = before[p]
           /\ \A i \in DOMAIN fsops[p] :
                 fsops[p][i] \notin {"mkdir(entry_path)", "write(entry_file)"}
           /\ pc[p] = "CONTEXT_ONLY"
           /\ ret[p].status = "returned"
           /\ ret[p].value.text.msg = "# World Context for Creating '{}' in {}"
           /\ ret[p].value.text.world_context = local[p].world_context

\* C1 witness: a blank-content call has returned its context in a world that
\* already holds an entry file
C1_Witness ==
    \E p \in Tasks :
        /\ CreateFinished(p) /\ ValidRequired(p) /\ WorldExisted(p)
        /\ OverviewExisted(p)
        /\ Arg(p, "entry_content") = Str(<<" ">>)
        /\ pc[p] = "CONTEXT_ONLY"
        /\ DOMAIN entryFiles # {}

\* C2: every entry file and every directory under entries/ belongs to a
\* taxonomy whose overview file exists, and a call that names a taxonomy without
\* an overview file changes nothing in the file system
C2_EntryOnlyUnderExistingTaxonomy ==
    /\ \A k \in DOMAIN entryFiles :
          <<k[1], k[2] \o <<"-overview", ".md">>>> \in DOMAIN taxonomyFiles
    /\ \A d \in entryDirs :
          <<d[1], d[2] \o <<"-overview", ".md">>>> \in DOMAIN taxonomyFiles
    /\ \A p \in Tasks :
          (/\ rpc[p] # "idle" /\ tool[p] = "create_world_entry"
           /\ ValidRequired(p) /\ ~OverviewExisted(p))
          => /\ FileSystem = before[p]
             /\ \A i \in DOMAIN fsops[p] :
                   fsops[p][i] \notin {"mkdir(entry_path)", "write(entry_file)"}

\* C2 witness: a call with content for a taxonomy without an overview file has
\* ended in the taxonomy error, while an entry of another taxonomy exists
C2_Witness ==
    \E p \in Tasks :
        /\ CreateFinished(p) /\ ValidRequired(p) /\ WorldExisted(p)
        /\ ~OverviewExisted(p)
        /\ Arg(p, "entry_content") = Str(ContentA)
        /\ pc[p] = "ERROR"
        /\ DOMAIN entryFiles # {}

\* the elements of a list
Elements(list) == {list[i] : i \in DOMAIN list}

\* C3: the error text returned for a taxonomy without an overview file, in a
\* world that exists, names the taxonomy as requested and lists each taxonomy
\* that has an overview file once and no other name ("None" when there is none)
C3_TaxonomyErrorListsAll ==
    \A p \in Tasks :
        (/\ CreateFinished(p) /\ ValidRequired(p) /\ WorldExisted(p)
         /\ ~OverviewExisted(p) /\ ret[p].status = "returned")
        => /\ pc[p] = "ERROR"
           /\ ret[p].value.text.msg
                = "Error: Taxonomy '{}' does not exist. Available taxonomies: {}"
           /\ ret[p].value.text.taxonomy = Arg(p, "taxonomy").v
           /\ LET listed == ret[p].value.text.taxonomy_list
                  present == {k \in DOMAIN taxonomyFiles : k[1] = WorldPathOf(p)}
              IN  IF present = {}
                  THEN listed = <<<<"None">>>>
                  ELSE /\ Len(listed) = Cardinality(present)
                       /\ Elements(listed) =
                            {DisplayName(k[2]) : k \in present}

\* C3 witness: the error for Fauna lists Flora, the one taxonomy there is
C3_Witness ==
    \E p \in Tasks :
        /\ CreateFinished(p) /\ ValidRequired(p) /\ WorldExisted(p)
        /\ ~OverviewExisted(p)
        /\ Arg(p, "taxonomy") = Str(Fauna)
        /\ pc[p] = "ERROR"
        /\ ret[p].value.text.taxonomy_list = <<Flora>>


\* C4 (as claimed): a call without arguments, or with a required argument
\* missing or empty, returns an error text and has touched no path or file
C4_MissingArgsErrorBeforeFs ==
    \A p \in Tasks :
        (CreateFinished(p) /\ MissingRequired(p))
        => /\ ret[p].status = "returned"
           /\ pc[p] = "ERROR"
           /\ ret[p].value.text.msg \in
                {"Error: No arguments provided",
                 "Error: world_directory, taxonomy, and entry_name are required"}
           /\ fsops[p] = <<>>
           /\ FileSystem = before[p]

\* C5 (as claimed): a call with the required arguments whose world directory
\* does not exist returns an error text, changes nothing in the file system
\* and goes no further than the existence test of the world directory
C5_MissingWorldError ==
    \A p \in Tasks :
        (CreateFinished(p) /\ ValidRequired(p) /\ ~WorldExisted(p))
        => /\ ret[p].status = "returned"
           /\ pc[p] = "ERROR"
           /\ ret[p].value.text.msg = "Error: World directory {} does not exist"
           /\ fsops[p] = <<"resolve_world_path", "exists(world_path)">>
           /\ FileSystem = before[p]

C7_NeverPropagates ==
    \A p \in Tasks :
        (rpc[p] # "idle" /\ tool[p] = "create_world_entry")
        => pc[p] # "RAISED" /\ ret[p].status # "raised"

\* the entry path of a call
EntryPathOf(p) ==
    <<WorldPathOf(p), clean_name(Arg(p, "taxonomy").v),
      clean_name(Arg(p, "entry_name").v) \o <<".md">>>>

\* C8: when a call with content has ended, the entries are those there were
\* when it began plus its own, and the file at its entry path is the document
\* built from this call's content, whatever was at that path before
C8_SecondCallOverwrites ==
    \A p \in Tasks :
        (CreateFinished(p) /\ pc[p] = "DONE")
        => /\ DOMAIN entryFiles = DOMAIN before[p].entryFiles \cup {EntryPathOf(p)}
           /\ \A k \in DOMAIN entryFiles \ {EntryPathOf(p)} :
                 entryFiles[k] = before[p].entryFiles[k]
           /\ entryFiles[EntryPathOf(p)] =
                FinalContent(Arg(p, "entry_content").v, Arg(p, "taxonomy").v,
                             local[p].taxonomy_context)
           /\ LET text == entryFiles[EntryPathOf(p)].text
                  body == BodyOf(Arg(p, "entry_content").v)
              IN  SubSeq(text, 1, Len(body)) = body

\* C8 witness: the second of two calls for the same entry has ended, and the
\* file that held the first call's document holds another one
C8_Witness ==
    \E p \in Tasks :
        /\ CreateFinished(p) /\ pc[p] = "DONE"
        /\ EntryPathOf(p) \in DOMAIN before[p].entryFiles
        /\ before[p].entryFiles[EntryPathOf(p)].text
             # entryFiles[EntryPathOf(p)].text
        /\ Cardinality(DOMAIN entryFiles) = 1

\* the unknown-tool failure for a name
IsUnknownToolError(out, name) ==
    /\ out.status = "raised"
    /\ out.value.exc = "ValueError"
    /\ out.value.message = <<"Unknown entry tool: ", name>>

\* C9: a call of the router with a name that is not registered raises the
\* unknown-tool error that holds the name, without any handler call and
\* without a returned result; a call with a registered name never ends in an
\* unknown-tool error
C9_UnknownToolFails ==
    \A p \in Tasks :
        rpc[p] # "idle"
        => /\ tool[p] \notin Registered
                => /\ rpc[p] = "raised"
                   /\ IsUnknownToolError(rout[p], tool[p])
                   /\ invoked[p] = <<>>
                   /\ pc[p] = "IDLE"
           /\ tool[p] \in Registered
                => /\ Len(invoked[p]) = 1
                   /\ \A n \in ToolNames : ~IsUnknownToolError(rout[p], n)

\* C9 witness: the router has raised the unknown-tool error for does_not_exist
C9_Witness ==
    \E p \in Tasks :
        /\ tool[p] = "does_not_exist"
        /\ rpc[p] = "raised"
        /\ IsUnknownToolError(rout[p], "does_not_exist")

\* C10: for a registered name the router calls the handler registered under
\* it, once, with the arguments it was given, and what it returns or raises is
\* what the handler returned or raised
C10_RouterForwardsUnchanged ==
    \A p \in Tasks :
        (rpc[p] # "idle" /\ tool[p] \in Registered)
        => /\ invoked[p] = <<[handler |-> ENTRY_HANDLERS[tool[p]],
                              arguments |-> rargs[p]]>>
           /\ args[p] = rargs[p]
           /\ (tool[p] = "create_world_entry")
                <=> (pc[p] \notin {"OTHER_HANDLER", "OTHER_DONE"})
           /\ rpc[p] = "awaiting" => rout[p] = NoRet
           /\ rpc[p] \in {"returned", "raised"}
                => /\ pc[p] \in HandlerDone
                   /\ rout[p].status = ret[p].status
                   /\ rout[p].status = rpc[p]
                   /\ rout[p].value = ret[p].value

\* C10 witness: the router has re-raised the failure of a registered handler
C10_Witness ==
    \E p \in Tasks :
        /\ tool[p] = "create_stub_entries"
        /\ rpc[p] = "raised"
        /\ ret[p].status = "raised"
        /\ rout[p].value = ret[p].value
        /\ rargs[p] # NoArguments

\* ------------------------------------------------------------------ C11
\* the footer line that names the taxonomy, title-cased
FooterOf(taxonomy) ==
    <<"\n\n---\n*Entry in ">> \o title(taxonomy) \o <<" taxonomy*\n">>

\* the frontmatter of the document at the entry path of call p is what the
\* claim says: description, article_type "full", and taxonomyContext exactly
\* when the taxonomy-context excerpt is non-empty
FrontmatterAsClaimed(p) ==
    LET fm == entryFiles[EntryPathOf(p)].frontmatter
        content == Arg(p, "entry_content").v
    IN  /\ {"description", "article_type"} \subseteq DOMAIN fm
        /\ DOMAIN fm \subseteq {"description", "article_type", "taxonomyContext"}
        /\ fm.article_type = "full"
        /\ fm.description = extract_description_from_content(content)
        /\ ("taxonomyContext" \in DOMAIN fm) <=> (local[p].taxonomy_context # <<>>)
        /\ ("taxonomyContext" \in DOMAIN fm)
              => fm.taxonomyContext = local[p].taxonomy_context

StepOrder ==
    <<"START", "VALIDATED_ARGS", "WORLD_RESOLVED", "TAXONOMY_CHECKED",
      "CONTEXT_BUILT", "WRITE_ENTRY", "IMAGE_ATTEMPTED", "STUB_ANALYZED", "DONE">>

StepIndex(step) == CHOOSE i \in 1..Len(StepOrder) : StepOrder[i] = step

\* a move of an invocation from one position to another that the claim
\* allows: to the next step, from CONTEXT_BUILT to the context-only return,
\* or out of a step before the write with an error
StepAllowed(from, to) ==
    \/ /\ from \in Elements(StepOrder) /\ to \in Elements(StepOrder)
       /\ StepIndex(to) = StepIndex(from) + 1
    \/ from = "CONTEXT_BUILT" /\ to = "CONTEXT_ONLY"
    \/ /\ from \in {"START", "VALIDATED_ARGS", "WORLD_RESOLVED"}
       /\ to \in {"ERROR", "RAISED"}

\* the file-system calls that come before the write, when all have succeeded
OpsBeforeWrite ==
    <<"resolve_world_path", "exists(world_path)",
      "exists(taxonomy_overview_file)", "extract_taxonomy_context",
      "get_existing_taxonomies", "get_existing_entries_with_descriptions",
      "_get_world_overview", "mkdir(entry_path)">>

\* in the calls an invocation has made so far, a write comes after all the
\* checks and reads, and the image and stub calls come after a write
OpsInOrder(p) ==
    \A i \in 1..Len(fsops[p]) :
        /\ fsops[p][i] = "write(entry_file)"
             => /\ SubSeq(fsops[p], 1, i - 1) = OpsBeforeWrite
                /\ pc[p] \in {"WRITE_ENTRY", "IMAGE_ATTEMPTED",
                               "STUB_ANALYZED", "DONE"}
        /\ fsops[p][i] \in {"_generate_optimized_entry_image",
                            "generate_stub_analysis"}
             => \E j \in 1..(i - 1) : fsops[p][j] = "write(entry_file)"
        /\ fsops[p][i] = "generate_stub_analysis"
             => \E j \in 1..(i - 1) :
                    fsops[p][j] = "_generate_optimized_entry_image"

\* C12: every create_world_entry invocation moves through the steps only in
\* the order START, VALIDATED_ARGS, WORLD_RESOLVED, TAXONOMY_CHECKED,
\* CONTEXT_BUILT, then CONTEXT_ONLY or WRITE_ENTRY, IMAGE_ATTEMPTED,
\* STUB_ANALYZED, DONE; the entries change only in the step from CONTEXT_BUILT
\* to WRITE_ENTRY, and the image and stub calls come only after the write
C12_StepsInOrder ==
    [][\A p \in Tasks :
          /\ (tool[p] = "create_world_entry" /\ pc'[p] # pc[p]
                /\ pc[p] # "IDLE" /\ pc'[p] # "IDLE")
               => StepAllowed(pc[p], pc'[p])
          /\ (tool'[p] = "create_world_entry" /\ pc[p] = "IDLE"
                /\ pc'[p] # "IDLE")
               => pc'[p] = "START"
          /\ <<entryDirs, entryFiles>>' # <<entryDirs, entryFiles>>
               => \E q \in Tasks :
                     pc[q] = "CONTEXT_BUILT" /\ pc'[q] = "WRITE_ENTRY"
          /\ OpsInOrder(p)'
      ]_vars

\* C12 witness: an invocation has gone through every step to DONE, and the
\* calls it made are the checks and reads, the write, the image, the stubs
C12_Witness ==
    \E p \in Tasks :
        /\ CreateFinished(p) /\ pc[p] = "DONE"
        /\ Len(fsops[p]) = Len(OpsBeforeWrite) + 4
        /\ SubSeq(fsops[p], 1, Len(OpsBeforeWrite) + 3)
              = OpsBeforeWrite \o <<"write(entry_file)",
                                    "_generate_optimized_entry_image",
                                    "generate_stub_analysis">>

\* ------------------------------------------------------------------ C13
\* the entry path and the complete document of an invocation whose arguments
\* are `a`
PathFor(a) ==
    <<<<".", "/">> \o Get(a, "world_directory").v,
      clean_name(Get(a, "taxonomy").v),
      clean_name(Get(a, "entry_name").v) \o <<".md">>>>

DocFor(a) ==
    FinalContent(Get(a, "entry_content").v, Get(a, "taxonomy").v,
                 extract_taxonomy_context(
                     <<".", "/">> \o Get(a, "world_directory").v,
                     clean_name(Get(a, "taxonomy").v)))

\* the arguments `a` are those of a creation with non-empty content whose
\* world and taxonomy exist
CanCreateWith(a) ==
    /\ ~a.isNone
    /\ \A k \in Required \cup {"entry_content"} :
          k \in DOMAIN a.dict /\ IsStr(Get(a, k)) /\ Get(a, k).v # <<>>
    /\ HasContent(Get(a, "entry_content").v)
    /\ (<<".", "/">> \o Get(a, "world_directory").v) \in worldDirs
    /\ TaxonomyExists(<<".", "/">> \o Get(a, "world_directory").v,
                      clean_name(Get(a, "taxonomy").v))

\* `a` and `b` are for the same world, taxonomy and entry name, with
\* different non-empty content
RacingWith(a, b) ==
    /\ ~a.isNone /\ ~b.isNone
    /\ \A k \in Required : Get(a, k) = Get(b, k)
    /\ Get(a, "entry_content") # Get(b, "entry_content")
    /\ CanCreateWith(a) /\ CanCreateWith(b)

\* an invocation is over when the router has returned or raised
Over == {"returned", "raised"}

\* the router has returned the success response of the handler
SuccessWith(routerState, position, out) ==
    /\ routerState = "returned" /\ position = "DONE"
    /\ out.status = "returned"
    /\ out.value.text.msg = "## Entry Created Successfully!"

\* p and q are invocations of create_world_entry that race
Racing(p, q) ==
    /\ p # q
    /\ rpc[p] # "idle" /\ tool[p] = "create_world_entry"
    /\ rpc[q] # "idle" /\ tool[q] = "create_world_entry"
    /\ RacingWith(args[p], args[q])

Succeeded(p) == SuccessWith(rpc[p], pc[p], rout[p])

\* the step in which invocation p writes its file
WriteStep(p) == pc[p] = "CONTEXT_BUILT" /\ pc'[p] = "WRITE_ENTRY"

\* C13: concurrent create_world_entry invocations for the same world,
\* taxonomy and entry name with different non-empty content race with
\* last-write-wins: each write leaves the complete document of its writer at
\* the entry path, no other step changes the file, and once two such
\* invocations are over both have returned the success response, exactly one
\* file exists and it is the complete document of one of the invocations
C13_LastWriteWins ==
    [][/\ \A p \in Tasks :
            WriteStep(p)
            => /\ CanCreateWith(args[p])
               /\ DOMAIN entryFiles'
                    = DOMAIN entryFiles \cup {PathFor(args[p])}
               /\ entryFiles'[PathFor(args[p])] = DocFor(args[p])
               /\ \A k \in DOMAIN entryFiles \ {PathFor(args[p])} :
                     entryFiles'[k] = entryFiles[k]
       /\ (\A p \in Tasks : ~WriteStep(p)) => entryFiles' = entryFiles
       /\ \A p, q \in Tasks :
            (/\ p < q
             /\ rpc'[p] \in Over /\ tool'[p] = "create_world_entry"
             /\ rpc'[q] \in Over /\ tool'[q] = "create_world_entry"
             /\ RacingWith(args'[p], args'[q]))
            => /\ SuccessWith(rpc'[p], pc'[p], rout'[p])
               /\ SuccessWith(rpc'[q], pc'[q], rout'[q])
               /\ DOMAIN entryFiles' = {PathFor(args'[p])}
               /\ \E r \in Tasks :
                     /\ rpc'[r] # "idle" /\ tool'[r] = "create_world_entry"
                     /\ pc'[r] \in {"WRITE_ENTRY", "IMAGE_ATTEMPTED",
                                     "STUB_ANALYZED", "DONE"}
                     /\ PathFor(args'[r]) = PathFor(args'[p])
                     /\ entryFiles'[PathFor(args'[p])] = DocFor(args'[r])
      ]_vars

\* C13 witness: two racing invocations are over with the success response,
\* and the file holds the document of the first task, which is not the
\* document of the second: the first task wrote last
C13_Witness ==
    /\ Racing(1, 2)
    /\ Succeeded(1) /\ Succeeded(2)
    /\ DocFor(args[1]) # DocFor(args[2])
    /\ DOMAIN entryFiles = {PathFor(args[1])}
    /\ entryFiles[PathFor(args[1])] = DocFor(args[1])

\* ------------------------------------------------------------------ C14
\* C14: a create_world_entry call, in progress or over with any outcome, has
\* changed at most the directory entries/<cleaned taxonomy>/ and the file
\* entries/<cleaned taxonomy>/<cleaned entry>.md: the world directory, every
\* taxonomy overview file, the world overview file, the files under images/
\* and the entry file of every other (taxonomy, entry) pair are as they were
\* when the call began
C14_FrameEffect ==
    \A p \in Tasks :
        (rpc[p] # "idle" /\ tool[p] = "create_world_entry")
        => /\ worldDirs = before[p].worldDirs
           /\ taxonomyFiles = before[p].taxonomyFiles
           /\ overviewFiles = before[p].overviewFiles
           /\ imageFiles = before[p].imageFiles
           /\ (entryDirs # before[p].entryDirs
                  \/ entryFiles # before[p].entryFiles)
               => /\ before[p].entryDirs \subseteq entryDirs
                  /\ entryDirs \subseteq before[p].entryDirs
                        \cup {<<WorldPathOf(p),
                                 clean_name(Arg(p, "taxonomy").v)>>}
                  /\ DOMAIN before[p].entryFiles \subseteq DOMAIN entryFiles
                  /\ DOMAIN entryFiles \subseteq DOMAIN before[p].entryFiles
                        \cup {EntryPathOf(p)}
                  /\ \A k \in DOMAIN before[p].entryFiles \ {EntryPathOf(p)} :
                        entryFiles[k] = before[p].entryFiles[k]

\* C14 witness: a call has written its entry in a world that has taxonomy
\* overview files, a world overview file and the entry of another taxonomy,
\* and all of these are as they were
C14_Witness ==
    \E p \in Tasks :
        /\ CreateFinished(p) /\ pc[p] = "DONE"
        /\ EntryPathOf(p) \in DOMAIN entryFiles
        /\ EntryPathOf(p) \notin DOMAIN before[p].entryFiles
        /\ \E k \in DOMAIN before[p].entryFiles :
              k # EntryPathOf(p) /\ entryFiles[k] = before[p].entryFiles[k]
        /\ Cardinality(DOMAIN taxonomyFiles) = 2
        /\ DOMAIN overviewFiles # {}
        /\ taxonomyFiles = before[p].taxonomyFiles
        /\ overviewFiles = before[p].overviewFiles

====
